---- MODULE Spec2Model ----
(***************************************************************************)
(* Model of the two PyGuitarPro helper programs of the repository:         *)
(*   clear_percussion_tracks.py        (the rest coalescer)                *)
(*   standardize_percussion_tracks.py  (the note standardizer)             *)
(* Each program works on one voice / one beat at a time and keeps no state *)
(* between voices or beats, so the model follows one voice of a percussion *)
(* track through the coalescer and one beat through the standardizer.      *)
(***************************************************************************)
EXTENDS Integers, Sequences, FiniteSets

VARIABLES
    \* ---- clear_percussion_tracks.py ----
    file,          \* the voice stored in the file the next guitarpro.parse reads
    beats,         \* voice.beats: the parsed beat objects, in order
    newbeats,      \* newbeats: positions (in beats) of the beat objects kept so far
    last,          \* last: position of the merge target in beats, 0 for None
    i,             \* position of the for loop over voice.beats
    pc,            \* position of the program
    pass,          \* number of applications of remove_rests started
    rep,           \* times Duration.fromTime is known to represent
    nonrep,        \* times Duration.fromTime is known to reject (ValueError)
    \* ---- standardize_percussion_tracks.py ----
    sfile,         \* the beat stored in the file the next guitarpro.parse reads
    notes,         \* beat.notes
    return_values, \* return_values of _trim_note_values
    spc,           \* position of the program
    run            \* number of applications of standardize started

clearVars == <<file, beats, newbeats, last, i, pc, pass, rep, nonrep>>
stdVars == <<sfile, notes, return_values, spc, run>>
vars == <<file, beats, newbeats, last, i, pc, pass, rep, nonrep,
          sfile, notes, return_values, spc, run>>

\* ---------------------------------------------------------------- bounds
MaxLen == 4        \* beats in a voice
MaxTime == 3       \* time of a beat of the input file, in ticks
MaxPasses == 3     \* applications of remove_rests to the same file
MaxNotes == 3      \* notes of a generated input beat
MaxRuns == 2       \* applications of standardize to the same file

\* main() of clear_percussion_tracks.py applies remove_rests twice
MainPasses == 2

\* ======================================================================
\* clear_percussion_tracks.py
\* ======================================================================

\* A beat is a record: notes (whether beat.notes is non-empty) and time
\* (beat.duration.time).
RECURSIVE SumTime(_)
SumTime(s) == IF s = <<>> THEN 0 ELSE Head(s).time + SumTime(Tail(s))

\* The voices an input file can hold.
Voices == UNION {[1..n -> [notes : BOOLEAN, time : 1..MaxTime]] : n \in 0..MaxLen}

\* last.duration.time + beat.duration.time, the argument of Duration.fromTime.
MergedTimeLost(a, b) == a
MergedTime(a, b) == a + b

\* Duration.fromTime(t) returns the Duration of time t, or raises ValueError
\* when no Guitar Pro duration has that time.  Which times are representable
\* is a fixed property of the library: an answer, once given, is kept.
CanSucceed(t) == t \notin nonrep
CanFail(t) == t \notin rep

InitClear ==
    /\ file \in Voices
    /\ beats = <<>>
    /\ newbeats = <<>>
    /\ last = 0
    /\ i = 1
    /\ pc = "parse"
    /\ pass = 0
    \* every duration read from a file is a Guitar Pro duration
    /\ rep = {file[k].time : k \in DOMAIN file}
    /\ nonrep = {}
    \* the standardizer is a separate program and is not running
    /\ sfile = <<>>
    /\ notes = <<>>
    /\ return_values = {}
    /\ spc = "idle"
    /\ run = 0

\* song = guitarpro.parse(input_filename); last = None; newbeats = []
Parse ==
    /\ pc = "parse"
    /\ beats' = file
    /\ newbeats' = <<>>
    /\ last' = 0
    /\ i' = 1
    /\ pass' = pass + 1
    /\ pc' = "loop"
    /\ UNCHANGED <<file, rep, nonrep>>
    /\ UNCHANGED stdVars

\* if beat.notes: last = beat; newbeats.append(beat)
KeepSounding ==
    /\ pc = "loop" /\ i <= Len(beats)
    /\ beats[i].notes
    /\ last' = i
    /\ newbeats' = Append(newbeats, i)
    /\ i' = i + 1
    /\ UNCHANGED <<file, beats, pc, pass, rep, nonrep>>
    /\ UNCHANGED stdVars

\* elif last is not None: try: last.duration = Duration.fromTime(...)
\* The silent beat is not appended; the beat object last is changed in place.
MergeRest ==
    /\ pc = "loop" /\ i <= Len(beats)
    /\ ~beats[i].notes
    /\ last # 0
    /\ LET t == MergedTime(beats[last].time, beats[i].time) IN
        /\ CanSucceed(t)
        /\ rep' = rep \cup {t}
        /\ beats' = [beats EXCEPT ![last].time = t]
    /\ i' = i + 1
    /\ UNCHANGED <<file, newbeats, last, pc, pass, nonrep>>
    /\ UNCHANGED stdVars

\* except ValueError: last = beat; newbeats.append(beat)
KeepRest ==
    /\ pc = "loop" /\ i <= Len(beats)
    /\ ~beats[i].notes
    /\ last # 0
    /\ LET t == MergedTime(beats[last].time, beats[i].time) IN
        /\ CanFail(t)
        /\ nonrep' = nonrep \cup {t}
    /\ last' = i
    /\ newbeats' = Append(newbeats, i)
    /\ i' = i + 1
    /\ UNCHANGED <<file, beats, pc, pass, rep>>
    /\ UNCHANGED stdVars

\* else: newbeats.append(beat)   (silent beat before any sounding beat)
KeepLeadingRest ==
    /\ pc = "loop" /\ i <= Len(beats)
    /\ ~beats[i].notes
    /\ last = 0
    /\ newbeats' = Append(newbeats, i)
    /\ i' = i + 1
    /\ UNCHANGED <<file, beats, last, pc, pass, rep, nonrep>>
    /\ UNCHANGED stdVars

\* voice.beats = newbeats
AssignBeats ==
    /\ pc = "loop" /\ i > Len(beats)
    /\ beats' = [k \in 1..Len(newbeats) |-> beats[newbeats[k]]]
    /\ newbeats' = <<>>
    /\ last' = 0
    /\ i' = 1
    /\ pc' = "write"
    /\ UNCHANGED <<file, pass, rep, nonrep>>
    /\ UNCHANGED stdVars

\* guitarpro.write(song, output_filename); main() then applies remove_rests
\* to the output file once more.
Write ==
    /\ pc = "write"
    /\ file' = beats
    /\ beats' = <<>>
    /\ pc' = IF pass < MainPasses THEN "parse" ELSE "done"
    /\ UNCHANGED <<newbeats, last, i, pass, rep, nonrep>>
    /\ UNCHANGED stdVars

\* The program is run again on its own output file.
Reapply ==
    /\ pc = "done"
    /\ pass < MaxPasses
    /\ pc' = "parse"
    /\ UNCHANGED <<file, beats, newbeats, last, i, pass, rep, nonrep>>
    /\ UNCHANGED stdVars

NextClear ==
    \/ Parse
    \/ KeepSounding
    \/ MergeRest
    \/ KeepRest
    \/ KeepLeadingRest
    \/ AssignBeats
    \/ Write
    \/ Reapply

SpecClear == InitClear /\ [][NextClear]_vars

\* ---------------------------------------------------------------- claims

\* The time of the beats kept so far, and of the beats the loop has yet to see.
KeptTime == SumTime([k \in 1..Len(newbeats) |-> beats[newbeats[k]]])
PendingTime == SumTime(SubSeq(beats, i, Len(beats)))

\* C1: duration conservation.  After remove_rests_from_track the beat times of
\* the voice sum to what they summed to in the file that was parsed, and at
\* every point of the loop the kept beats plus the beats still to come carry
\* that same total: the time of a dropped silent beat is in the beat it was
\* merged into, once.
C1_DurationConservation ==
    /\ pc = "loop" => KeptTime + PendingTime = SumTime(file)
    /\ pc = "write" => SumTime(beats) = SumTime(file)

\* A pass that dropped a silent beat into its predecessor and kept another
\* one whose merge was rejected.
C1_Witness ==
    /\ pc = "write"
    /\ Len(beats) < Len(file)
    /\ \E k \in DOMAIN beats : ~beats[k].notes /\ \E j \in 1..(k-1) : beats[j].notes

\* C10: after the two applications of main(), a third application of
\* remove_rests_from_track drops no beat and changes no duration.
C10_TwoPassFixpoint ==
    (pc = "write" /\ pass = MainPasses + 1) => beats = file


\* ======================================================================
\* standardize_percussion_tracks.py
\* ======================================================================

TOMS == {38, 40, 37, 41, 43, 45, 47, 48, 50}
CYMBALS == {49, 57, 52, 55, 51, 53, 54, 56, 59, 42, 44, 46}
HAND_NOTES == TOMS \cup CYMBALS

\* A note is a record: value (note.value) and string (note.string).
Values(ns) == {ns[k].value : k \in DOMAIN ns}
NoteSet(ns) == {ns[k] : k \in DOMAIN ns}

\* The codes input beats are drawn from: both bass drums, both snares, both
\* rides and the ride bell, both crashes, the pedal hi-hat, the hi-hats below
\* and above it, toms below and above the snare, and two codes that are in no
\* table: the hand clap 39 and 60, which is outside the documented range.
Codes == {35, 36, 37, 38, 39, 40, 41, 42, 44, 45, 46, 47, 49, 51, 53, 57, 59, 60}

\* guitarpro reads the notes of a beat string by string, so the notes of a
\* parsed beat are on distinct strings, in ascending order.
MakeBeat(c) == [k \in DOMAIN c |-> [value |-> c[k], string |-> k]]
InputBeats == {MakeBeat(c) : c \in UNION {[1..n -> Codes] : n \in 0..MaxNotes}}

\* The beat of the documented scenario: two crash cymbals and three toms.
ScenarioB == MakeBeat(<<49, 57, 45, 47, 41>>)

\* _simplify_note
SimplifyNote(note) ==
    IF note.value = 35 THEN [note EXCEPT !.value = 36]
    ELSE IF note.value = 40 THEN [note EXCEPT !.value = 38]
    ELSE IF note.value = 59 THEN [note EXCEPT !.value = 51]
    ELSE note

\* list({note.value: note for note in ns}.values()): one note per value, in
\* the order the values first occur, each value keeping its last note.
DictValuesAll(ns) == ns
DictValues(ns) ==
    LET idx == [k \in DOMAIN ns |-> k]
        first == SelectSeq(idx, LAMBDA k : \A j \in 1..(k-1) : ns[j].value # ns[k].value)
        lastOf(v) == CHOOSE k \in DOMAIN ns :
                        /\ ns[k].value = v
                        /\ \A j \in (k+1)..Len(ns) : ns[j].value # v
    IN [m \in DOMAIN first |-> ns[lastOf(ns[first[m]].value)]]

\* if len(hand_values) > 2
OverOneHand(hand_values) == Cardinality(hand_values) > 1
OverTwoHands(hand_values) == Cardinality(hand_values) > 2

\* The snare, crash cymbal 1, and crash cymbal 1 again when crash cymbal 2 is
\* present: return_values before the while loop.
PriorityValues(note_values) ==
    LET snare == IF 38 \in note_values THEN {38} ELSE {}
        crash == IF 49 \in note_values THEN snare \cup {49} ELSE snare
    IN IF Cardinality(crash) < 2 /\ 57 \in note_values THEN crash \cup {49} ELSE crash

\* value in CYMBALS and value not in return_values, for value in note_values
CymbalCandidates(note_values, rv) == {v \in note_values : v \in CYMBALS /\ v \notin rv}
\* value in TOMS and value not in return_values, for value in note_values
TomCandidatesAny(note_values, rv) == {v \in note_values : v \in TOMS}
TomCandidates(note_values, rv) == {v \in note_values : v \in TOMS /\ v \notin rv}

\* One iteration of the while loop: every return_values it can end with.
\* next(...) takes the first candidate in the iteration order of a set, which
\* the program does not control: any candidate.
FillOutcomesTomFirst(note_values, rv) ==
    LET afterTom == IF TomCandidates(note_values, rv) # {}
                    THEN {rv \cup {t} : t \in TomCandidates(note_values, rv)}
                    ELSE {rv}
    IN UNION {IF Cardinality(r) < 2 /\ CymbalCandidates(note_values, r) # {}
              THEN {r \cup {c} : c \in CymbalCandidates(note_values, r)}
              ELSE {r} : r \in afterTom}
FillOutcomes(note_values, rv) ==
    LET afterCymbal == IF CymbalCandidates(note_values, rv) # {}
                       THEN {rv \cup {c} : c \in CymbalCandidates(note_values, rv)}
                       ELSE {rv}
    IN UNION {IF Cardinality(r) < 2 /\ TomCandidates(note_values, r) # {}
              THEN {r \cup {t} : t \in TomCandidates(note_values, r)}
              ELSE {r} : r \in afterCymbal}

\* return_values.update(note_values.difference(HAND_NOTES));
\* return [note for note in notes if note.value in return_values]
TrimResult(ns, rv) ==
    LET keep == rv \cup (Values(ns) \ HAND_NOTES)
    IN SelectSeq(ns, LAMBDA n : n.value \in keep)

\* _place_note
PlaceNote(note, note_values) ==
    IF note.value = 36 THEN [note EXCEPT !.string = 5]
    ELSE IF note.value = 38 THEN [note EXCEPT !.string = 3]
    ELSE IF note.value = 44 THEN [note EXCEPT !.string = 6]
    ELSE IF note.value = 49 THEN [note EXCEPT !.string = 1]
    ELSE IF note.value \in CYMBALS THEN
        IF \E value \in note_values :
              value \in CYMBALS /\ (value < note.value \/ value = 49)
        THEN [note EXCEPT !.string = 2]
        ELSE [note EXCEPT !.string = 1]
    ELSE IF note.value \in TOMS THEN
        IF \E value \in note_values :
              value \in TOMS /\ (value < note.value \/ value = 38)
        THEN [note EXCEPT !.string = 4]
        ELSE [note EXCEPT !.string = 3]
    ELSE note

\* note_values = set(note.value for note in beat.notes), after trimming
NoteValuesBeforeTrim == Values(sfile)
NoteValues == Values(notes)

InitStd ==
    /\ sfile \in InputBeats \cup {ScenarioB}
    /\ notes = <<>>
    /\ return_values = {}
    /\ spc = "parse"
    /\ run = 0
    \* the coalescer is a separate program and is not running
    /\ file = <<>>
    /\ beats = <<>>
    /\ newbeats = <<>>
    /\ last = 0
    /\ i = 1
    /\ pc = "idle"
    /\ pass = 0
    /\ rep = {}
    /\ nonrep = {}

\* song = guitarpro.parse(input_filename)
StdParse ==
    /\ spc = "parse"
    /\ notes' = sfile
    /\ run' = run + 1
    /\ spc' = "beat"
    /\ UNCHANGED <<sfile, return_values>>
    /\ UNCHANGED clearVars

\* if not any(beat.notes): continue
SkipEmptyBeat ==
    /\ spc = "beat"
    /\ notes = <<>>
    /\ spc' = "write"
    /\ UNCHANGED <<sfile, notes, return_values, run>>
    /\ UNCHANGED clearVars

\* beat.notes = list({note.value: note for note in [_simplify_note(note) ...]}.values())
SimplifyBeat ==
    /\ spc = "beat"
    /\ notes # <<>>
    /\ notes' = DictValues([k \in DOMAIN notes |-> SimplifyNote(notes[k])])
    /\ spc' = "trim"
    /\ UNCHANGED <<sfile, return_values, run>>
    /\ UNCHANGED clearVars

\* _trim_note_values up to the while loop, or its else branch
TrimStart ==
    /\ spc = "trim"
    /\ LET note_values == Values(notes)
           hand_values == note_values \cap HAND_NOTES
       IN IF OverTwoHands(hand_values)
          THEN /\ return_values' = PriorityValues(note_values)
               /\ spc' = "fill"
          ELSE /\ return_values' = hand_values
               /\ spc' = "retain"
    /\ UNCHANGED <<sfile, notes, run>>
    /\ UNCHANGED clearVars

\* while len(return_values) < 2: one iteration
TrimFill ==
    /\ spc = "fill"
    /\ Cardinality(return_values) < 2
    /\ \E r \in FillOutcomes(Values(notes), return_values) : return_values' = r
    /\ UNCHANGED <<sfile, notes, spc, run>>
    /\ UNCHANGED clearVars

\* the while condition is false
TrimFillExit ==
    /\ spc = "fill"
    /\ ~(Cardinality(return_values) < 2)
    /\ spc' = "retain"
    /\ UNCHANGED <<sfile, notes, return_values, run>>
    /\ UNCHANGED clearVars

\* beat.notes = _trim_note_values(beat.notes): the return
TrimReturn ==
    /\ spc = "retain"
    /\ notes' = TrimResult(notes, return_values)
    /\ return_values' = {}
    /\ spc' = "place"
    /\ UNCHANGED <<sfile, run>>
    /\ UNCHANGED clearVars

\* beat.notes = [_place_note(note, note_values) for note in beat.notes]
PlaceBeat ==
    /\ spc = "place"
    /\ notes' = [k \in DOMAIN notes |-> PlaceNote(notes[k], NoteValues)]
    /\ spc' = "write"
    /\ UNCHANGED <<sfile, return_values, run>>
    /\ UNCHANGED clearVars

\* guitarpro.write(song, output_filename)
StdWrite ==
    /\ spc = "write"
    /\ sfile' = notes
    /\ notes' = <<>>
    /\ spc' = "done"
    /\ UNCHANGED <<return_values, run>>
    /\ UNCHANGED clearVars

\* The program is run again on its own output file.
Restandardize ==
    /\ spc = "done"
    /\ run < MaxRuns
    /\ spc' = "parse"
    /\ UNCHANGED <<sfile, notes, return_values, run>>
    /\ UNCHANGED clearVars

NextStd ==
    \/ StdParse
    \/ SkipEmptyBeat
    \/ SimplifyBeat
    \/ TrimStart
    \/ TrimFill
    \/ TrimFillExit
    \/ TrimReturn
    \/ PlaceBeat
    \/ StdWrite
    \/ Restandardize

SpecStd == InitStd /\ [][NextStd]_vars

\* Either program, started on an input file.
Init == InitClear \/ InitStd
Next == NextClear \/ NextStd
Spec == Init /\ [][Next]_vars

\* ---------------------------------------------------------------- claims

\* The notes of a beat that are played with the hands.
HandNoteCount(ns) == Cardinality({k \in DOMAIN ns : ns[k].value \in HAND_NOTES})
\* The distinct hand codes of a beat.
HandValues(ns) == Values(ns) \cap HAND_NOTES

\* C2: hand-cap invariant.  When standardize_track is done with a beat, at
\* most two of its notes have a cymbal or tom code.
C2_HandCap == spc = "write" => HandNoteCount(notes) <= 2

\* A first run over an input beat with more than two hand codes.
C2_Witness ==
    /\ spc = "write" /\ run = 1
    /\ Cardinality(HandValues(sfile)) > 2
    /\ HandNoteCount(notes) = 2

\* C3: Trim removes no note whose code is 36, 38, 44 or in no table.
C3_TrimKeepsNonHand ==
    spc = "retain" =>
        \A k \in DOMAIN notes :
            (notes[k].value \in {36, 38, 44} \/ notes[k].value \notin HAND_NOTES)
                => notes[k] \in NoteSet(TrimResult(notes, return_values))

\* C4: idempotence.  A run over a beat that a run of standardize_track has
\* written leaves the beat with the same codes, each on the same string.
C4_Idempotent ==
    (spc = "write" /\ run > 1) =>
        /\ NoteSet(notes) = NoteSet(sfile)
        /\ Len(notes) = Len(sfile)

\* A second run over a beat holding two hand notes and a note in no table.
C4_Witness ==
    /\ spc = "write" /\ run = 2
    /\ HandNoteCount(notes) = 2
    /\ \E k \in DOMAIN notes : notes[k].value \notin HAND_NOTES \cup {36}

\* The first run is working on the beat of scenario B.
OnScenarioB == run = 1 /\ sfile = ScenarioB /\ spc # "parse"

\* C5 as stated: for the beat {49, 57, 45, 47, 41}, Trim keeps 49 and one of
\* the toms 45, 47, 41 (57 is dropped); Place puts 49 on string 1 and the tom
\* on string 3 or 4.
C5_ScenarioB ==
    (OnScenarioB /\ spc = "write") =>
        \E t \in {45, 47, 41} :
            /\ Values(notes) = {49, t}
            /\ \A k \in DOMAIN notes :
                  /\ notes[k].value = 49 => notes[k].string = 1
                  /\ notes[k].value = t => notes[k].string \in {3, 4}

\* C5 as amended: for the beat {49, 57, 45, 47, 41}, Trim keeps the two crash
\* cymbals 49 and 57 and drops the three toms; Place puts 49 on string 1 and
\* 57 on string 2.
C5_ScenarioB_Amended ==
    OnScenarioB =>
        /\ spc = "retain" => Values(TrimResult(notes, return_values)) = {49, 57}
        /\ spc = "place" => Values(notes) = {49, 57}
        /\ spc = "write" => NoteSet(notes) = {[value |-> 49, string |-> 1],
                                              [value |-> 57, string |-> 2]}

\* Scenario B has been trimmed and placed.
C5_Witness == OnScenarioB /\ spc = "write" /\ Len(notes) = 2

\* C6: conflict-free strings.  When standardize_track is done with a beat, no
\* two of its notes are on the same string.
C6_ConflictFree ==
    spc = "write" =>
        \A j, k \in DOMAIN notes : j # k => notes[j].string # notes[k].string

\* C7: a beat with more than two hand codes before Trim holds exactly two
\* notes with hand codes after Trim.
C7_ExactlyTwoHands ==
    (spc = "retain" /\ Cardinality(HandValues(notes)) > 2) =>
        HandNoteCount(TrimResult(notes, return_values)) = 2

C9_FillProgress ==
    (spc = "fill" /\ Cardinality(return_values) < 2) =>
        \A r \in FillOutcomes(Values(notes), return_values) :
            Cardinality(r) > Cardinality(return_values)

\* The loop is about to run with crash cymbal 1 retained for a beat that only
\* holds crash cymbal 2.
C9_Witness ==
    /\ spc = "fill"
    /\ return_values = {49}
    /\ 49 \notin Values(notes)

====
